---- MODULE Spec2Model ----
(***************************************************************************)
(* r53tool (src/main.go): a command line tool that adds IP addresses to,   *)
(* or deletes them from, an existing Route53 "A" resource record set.      *)
(*                                                                         *)
(* One invocation is a linear program:                                     *)
(*   main -> zoneIDByName (ListHostedZones, page after page)               *)
(*        -> getResourceRecordSet (one ListResourceRecordSets call)        *)
(*        -> add | del (one ChangeResourceRecordSets UPSERT) | list.       *)
(*                                                                         *)
(* Strings the code splits or joins (names, zone ids) are sequences of     *)
(* pieces, each piece a separator or a run of characters holding no        *)
(* separator; "" is <<>>.  Strings the code only compares (IP addresses,   *)
(* set identifiers, types, commands) are TLA+ strings.  A nil pointer of   *)
(* the SDK's optional string type is Nil.                                  *)
(*                                                                         *)
(* Of the output only del's two log lines and the printed record sets are  *)
(* kept; the other verbose lines change nothing else.  main's last         *)
(* "default:" branch cannot be reached: its first switch ends the process  *)
(* for every command that is not add, del or list.                         *)
(*                                                                         *)
(* The Route53 service is the environment: its hosted zones and record     *)
(* sets are state, it serves listings in pages of maxItems entries, any    *)
(* call may fail, and an accepted UPSERT replaces the record set.          *)
(***************************************************************************)
EXTENDS Integers, Sequences, FiniteSets, TLC

\* ------------------------------------------------------------------ bounds
MaxNameLen == 5
MaxZones == 3
MaxRRS == 2
MaxItems == 2
MaxAddrs == 2
MaxIPs == 2

\* ------------------------------------------------------------- basic values
Nil == "<nil>"

SeqsUpTo(S, n) == UNION {[1..k -> S] : k \in 0..n}

Min(a, b) == IF a < b THEN a ELSE b

Range(s) == {s[i] : i \in 1..Len(s)}

\* ------------------------------------------------------------ Go's strings
RECURSIVE Split(_, _)
Split(s, sep) ==
    IF \A i \in 1..Len(s) : s[i] # sep
    THEN <<s>>
    ELSE LET i == CHOOSE k \in 1..Len(s) :
                      /\ s[k] = sep
                      /\ \A j \in 1..(k - 1) : s[j] # sep
         IN  <<SubSeq(s, 1, i - 1)>> \o Split(SubSeq(s, i + 1, Len(s)), sep)

RECURSIVE Join(_, _)
Join(parts, sep) ==
    IF Len(parts) = 0 THEN <<>>
    ELSE IF Len(parts) = 1 THEN parts[1]
    ELSE parts[1] \o <<sep>> \o Join(Tail(parts), sep)

HasSuffix(s, suffix) == Len(s) > 0 /\ s[Len(s)] = suffix

\* ------------------------------------------------------------ recordToZone
\* Variant: what the comment above the function says, the last two labels.
recordToZoneTwoLabels(name) ==
    LET labels == Split(name, ".")
    IN  IF Len(labels) < 3
        THEN [zone |-> <<>>, err |-> "InvalidName"]
        ELSE [zone |-> Join(SubSeq(labels, Len(labels) - 1, Len(labels)), "."),
              err |-> "nil"]

\* Variant: a zone of 3 labels below at least one more label.
recordToZoneFourLabels(name) ==
    LET labels == Split(name, ".")
    IN  IF Len(labels) < 4
        THEN [zone |-> <<>>, err |-> "InvalidName"]
        ELSE [zone |-> Join(SubSeq(labels, Len(labels) - 2, Len(labels)), "."),
              err |-> "nil"]

\* The labels of the name, InvalidName under 3 of them, else the last 3.
recordToZone(name) ==
    LET labels == Split(name, ".")
    IN  IF Len(labels) < 3
        THEN [zone |-> <<>>, err |-> "InvalidName"]
        ELSE [zone |-> Join(SubSeq(labels, Len(labels) - 2, Len(labels)), "."),
              err |-> "nil"]

\* ------------------------------------------------- the Route53 environment
\* The page ListHostedZones serves for a request: at most maxItems zones from
\* the marker on (marker 0: from the first zone), truncated when more follow.
ListHostedZonesResp(zones, items, marker) ==
    LET first == IF marker = 0 THEN 1 ELSE marker
        last == Min(first + items - 1, Len(zones))
    IN  [HostedZones |-> SubSeq(zones, first, last),
         IsTruncated |-> last < Len(zones),
         NextMarker |-> IF last < Len(zones) THEN last + 1 ELSE 0]

\* The single page ListResourceRecordSets serves from the start record on.
ListResourceRecordSetsResp(sets, items) ==
    [ResourceRecordSets |-> SubSeq(sets, 1, Min(items, Len(sets)))]

SameRecordSet(a, b) ==
    /\ a.Name = b.Name
    /\ a.Type = b.Type
    /\ a.SetIdentifier = b.SetIdentifier

\* An accepted UPSERT replaces the record set of that name, type and set
\* identifier wholesale, or creates it.
Upsert(sets, rrs) ==
    IF \E i \in 1..Len(sets) : SameRecordSet(sets[i], rrs)
    THEN [i \in 1..Len(sets) |->
             IF SameRecordSet(sets[i], rrs) THEN rrs ELSE sets[i]]
    ELSE Append(sets, rrs)

\* ------------------------------------------------------------ zoneIDByName
\* The scan of one page: the first zone of that name ends the search.
RECURSIVE ScanHostedZones(_, _)
ScanHostedZones(zones, name) ==
    IF zones = <<>>
    THEN [found |-> FALSE, zoneID |-> <<>>, err |-> "nil"]
    ELSE LET zone == Head(zones)
         IN  IF zone.Name = name
             THEN LET components == Split(zone.ID, "/")
                  IN  IF Len(components) # 3
                      THEN [found |-> TRUE, zoneID |-> <<>>,
                            err |-> "MalformedZoneID"]
                      ELSE [found |-> TRUE,
                            zoneID |-> components[Len(components)],
                            err |-> "nil"]
             ELSE ScanHostedZones(Tail(zones), name)

\* Variant: no paging, as in the tool's first revision.
ZonePageFirstOnly(resp, name) ==
    LET scan == ScanHostedZones(resp.HostedZones, name)
    IN  IF scan.found
        THEN [return |-> TRUE, zoneID |-> scan.zoneID, err |-> scan.err,
              marker |-> 0]
        ELSE [return |-> TRUE, zoneID |-> <<>>, err |-> "ZoneNotFound",
              marker |-> 0]

\* One turn of the loop on a page that arrived: return or ask for the next.
ZonePage(resp, name) ==
    LET scan == ScanHostedZones(resp.HostedZones, name)
    IN  IF scan.found
        THEN [return |-> TRUE, zoneID |-> scan.zoneID, err |-> scan.err,
              marker |-> 0]
        ELSE IF ~resp.IsTruncated
        THEN [return |-> TRUE, zoneID |-> <<>>, err |-> "ZoneNotFound",
              marker |-> 0]
        ELSE [return |-> FALSE, zoneID |-> <<>>, err |-> "nil",
              marker |-> resp.NextMarker]

\* ---------------------------------------------------- getResourceRecordSet
NoRRS == [Name |-> <<>>, Type |-> Nil, SetIdentifier |-> Nil,
          ResourceRecords |-> <<>>]

\* The scan of the page.  *rrs.SetIdentifier is read only when the name is
\* equal (&& short-circuits); read of a nil SetIdentifier panics.
RECURSIVE ScanRecordSets(_, _, _)
ScanRecordSets(sets, name, id) ==
    IF sets = <<>>
    THEN [rrs |-> NoRRS, err |-> "RecordSetNotFound"]
    ELSE LET r == Head(sets)
         IN  IF r.Name = name
             THEN IF r.SetIdentifier = Nil
                  THEN [rrs |-> NoRRS, err |-> "NilDereference"]
                  ELSE IF r.SetIdentifier = id
                  THEN [rrs |-> r, err |-> "nil"]
                  ELSE ScanRecordSets(Tail(sets), name, id)
             ELSE ScanRecordSets(Tail(sets), name, id)

\* ------------------------------------------ addToARecordResourceRecordSet
\* Variant: an address already in the list is not added again.
RECURSIVE AddRecordsNoDuplicates(_, _)
AddRecordsNoDuplicates(records, addrs) ==
    IF addrs = <<>> THEN records
    ELSE IF \E i \in 1..Len(records) : records[i].Value = Head(addrs)
    THEN AddRecordsNoDuplicates(records, Tail(addrs))
    ELSE AddRecordsNoDuplicates(Append(records, [Value |-> Head(addrs)]),
                                Tail(addrs))

\* The loop over the requested addresses: each is appended.
RECURSIVE AddRecords(_, _)
AddRecords(records, addrs) ==
    IF addrs = <<>> THEN records
    ELSE AddRecords(Append(records, [Value |-> Head(addrs)]), Tail(addrs))

\* ---------------------------------------- delFromARecordResourceRecordSet
\* Variant: the test of the loop inverted.
RECURSIVE DelRecordsKeepsListed(_, _, _, _)
DelRecordsKeepsListed(records, ipMap, newRecords, deleting) ==
    IF records = <<>>
    THEN [newRecords |-> newRecords, ipMap |-> ipMap, deleting |-> deleting]
    ELSE LET rr == Head(records)
         IN  IF rr.Value \notin ipMap
             THEN DelRecordsKeepsListed(Tail(records), ipMap \ {rr.Value},
                                        newRecords, Append(deleting, rr.Value))
             ELSE DelRecordsKeepsListed(Tail(records), ipMap,
                                        Append(newRecords, rr), deleting)

\* The loop over the existing records: a record whose value is in ipMap is
\* dropped and its value taken out of ipMap, any other record is kept.
RECURSIVE DelRecords(_, _, _, _)
DelRecords(records, ipMap, newRecords, deleting) ==
    IF records = <<>>
    THEN [newRecords |-> newRecords, ipMap |-> ipMap, deleting |-> deleting]
    ELSE LET rr == Head(records)
         IN  IF rr.Value \in ipMap
             THEN DelRecords(Tail(records), ipMap \ {rr.Value}, newRecords,
                             Append(deleting, rr.Value))
             ELSE DelRecords(Tail(records), ipMap, Append(newRecords, rr),
                             deleting)

\* mapKeys: the keys of the map in the order the map's iteration yields
\* them, which Go leaves unspecified: every listing without repetition.
MapKeys(data) ==
    {keys \in [1..Cardinality(data) -> data] : Range(keys) = data}

\* --------------------------------------------------------------------- main
\* Variant: list does not look at the addresses.
CheckArgsListAny(cmd, addrs) ==
    IF cmd \in {"add", "del"}
    THEN (IF Len(addrs) = 0 THEN "UsageError" ELSE "nil")
    ELSE IF cmd = "list" THEN "nil"
    ELSE "UsageError"

\* The check of the command and the addresses, before any remote call.
CheckArgs(cmd, addrs) ==
    IF cmd \in {"add", "del"}
    THEN (IF Len(addrs) = 0 THEN "UsageError" ELSE "nil")
    ELSE IF cmd = "list"
    THEN (IF Len(addrs) # 0 THEN "UsageError" ELSE "nil")
    ELSE "UsageError"

CheckType(type) == IF type = "A" THEN "nil" ELSE "UsageError"

Normalize(name) == IF HasSuffix(name, ".") THEN name ELSE name \o <<".">>

\* Variant: the error is not looked at.
OrContinue(e, next) == next

\* log.Fatal (usageFatal, a panic) on an error, the next step otherwise.
OrFatal(e, next) == IF e # "nil" THEN "exit" ELSE next

ExitOf(e) ==
    IF e = "nil" THEN "running"
    ELSE IF e = "UsageError" THEN "usage"
    ELSE IF e = "NilDereference" THEN "panic"
    ELSE "fatal"

\* -------------------------------------------------------------------- state
VARIABLES
    \* the command line and the environment of one invocation
    recordName, recordType, setID, action, ips, verbose, authOK,
    \* the Route53 service
    hostedZones, recordSets, maxItems,
    \* the program
    pc, zoneName, marker, zoneID, rrs, err, exit,
    \* what the invocation did: remote calls in order, the markers of the
    \* ListHostedZones requests, the change requests sent, the log lines of
    \* del on standard error, the record sets printed on standard output
    calls, markers, submitted, logged, printed,
    \* the change requests of all invocations, and which invocation runs
    history, run

flags == <<recordName, recordType, setID, action, ips, verbose, authOK>>
remote == <<hostedZones, recordSets, maxItems>>
program == <<pc, zoneName, marker, zoneID, rrs, err, exit>>
observed == <<calls, markers, submitted, logged, printed>>
vars == <<flags, remote, program, observed, history, run>>

\* ------------------------------------------------------------------ values
Chars == {"a", "b", "."}

RecordName == <<"www", ".", "example", ".", "com", ".">>
ZoneName == <<"example", ".", "com", ".">>
IPs == {"192.168.1.1", "192.168.1.2"}

Zone == [Name |-> ZoneName, ID |-> <<"/", "hostedzone", "/", "Z22CR2RGPPKRQB">>]
ZoneTwoParts == [Name |-> ZoneName, ID |-> <<"hostedzone", "/", "Z2">>]
ZoneFourParts == [Name |-> ZoneName, ID |-> <<"/", "hostedzone", "/", "Z4", "/">>]
OtherZone == [Name |-> <<"example", ".", "org", ".">>,
              ID |-> <<"/", "hostedzone", "/", "Z1OTHER">>]
Zones == {Zone, ZoneTwoParts, ZoneFourParts, OtherZone}

RecordSetOf(addrs) ==
    [Name |-> RecordName, Type |-> "A", SetIdentifier |-> "dc1",
     ResourceRecords |-> [i \in 1..Len(addrs) |-> [Value |-> addrs[i]]]]

RecordSets ==
    [Name : {RecordName, <<"zzz", ".", "example", ".", "com", ".">>},
     Type : {"A", "TXT"},
     SetIdentifier : {"dc1", "dc2", Nil},
     ResourceRecords : {<<[Value |-> "192.168.1.1"]>>}]

\* ------------------------------------------------------------------- start
InitProgram(start) ==
    /\ pc = start
    /\ zoneName = <<>>
    /\ marker = 0
    /\ zoneID = <<>>
    /\ rrs = NoRRS
    /\ err = "nil"
    /\ exit = "running"
    /\ calls = <<>>
    /\ markers = <<>>
    /\ submitted = <<>>
    /\ logged = <<>>
    /\ printed = <<>>
    /\ history = <<>>
    /\ run = "first"

\* One invocation with any flags against a few services.
Init ==
    /\ recordName \in {RecordName, <<"www", ".", "example", ".", "com">>, <<"com">>}
    /\ recordType \in {"A", "TXT"}
    /\ setID = "dc1"
    /\ action \in {"add", "del", "list", ""}
    /\ ips \in SeqsUpTo(IPs, MaxIPs)
    /\ verbose \in BOOLEAN
    /\ authOK \in BOOLEAN
    /\ hostedZones \in {<<>>, <<Zone>>, <<OtherZone, Zone>>, <<ZoneTwoParts>>}
    /\ recordSets \in
         {<<>>,
          <<RecordSetOf(<<"192.168.1.1">>)>>,
          <<[RecordSetOf(<<>>) EXCEPT !.SetIdentifier = "dc2"],
            RecordSetOf(<<"192.168.1.1", "192.168.1.2">>)>>,
          <<[RecordSetOf(<<>>) EXCEPT !.Type = "TXT", !.SetIdentifier = Nil]>>}
    /\ maxItems \in {1, 2}
    /\ InitProgram("main")

\* recordToZone on every name.
InitZone ==
    /\ recordName \in SeqsUpTo(Chars, MaxNameLen)
    /\ recordType = "A"
    /\ setID = "dc1"
    /\ action = "list"
    /\ ips = <<>>
    /\ verbose = FALSE
    /\ authOK = TRUE
    /\ hostedZones = <<>>
    /\ recordSets = <<>>
    /\ maxItems = 1
    /\ InitProgram("zoneIDByName")

\* The invocation up to the zone id, against every paged list of zones.
InitResolver ==
    /\ recordName \in {RecordName, <<"example", ".", "com">>}
    /\ recordType = "A"
    /\ setID = "dc1"
    /\ action = "list"
    /\ ips = <<>>
    /\ verbose = FALSE
    /\ authOK = TRUE
    /\ hostedZones \in SeqsUpTo(Zones, MaxZones)
    /\ recordSets = <<>>
    /\ maxItems \in 1..MaxItems
    /\ InitProgram("main")

\* The invocation up to the record set, against every paged list of sets.
InitLocator ==
    /\ recordName = RecordName
    /\ recordType = "A"
    /\ setID \in {"dc1", ""}
    /\ action = "list"
    /\ ips = <<>>
    /\ verbose = FALSE
    /\ authOK = TRUE
    /\ hostedZones = <<Zone>>
    /\ recordSets \in SeqsUpTo(RecordSets, MaxRRS)
    /\ maxItems \in 1..MaxItems
    /\ InitProgram("main")

\* Invocations against a record set with any address list.
InitMutator ==
    /\ recordName = RecordName
    /\ recordType = "A"
    /\ setID = "dc1"
    /\ action \in {"add", "del", "list"}
    /\ ips \in SeqsUpTo(IPs, MaxIPs)
    /\ verbose \in BOOLEAN
    /\ authOK = TRUE
    /\ hostedZones = <<Zone>>
    /\ recordSets \in {<<RecordSetOf(addrs)>> : addrs \in SeqsUpTo(IPs, MaxAddrs)}
    /\ maxItems = 1
    /\ InitProgram("main")

\* ----------------------------------------------------------------- actions
\* main up to the first remote call: the checks of the flags, the
\* credentials, the trailing dot.
Main ==
    /\ pc = "main"
    /\ LET e == IF CheckArgs(action, ips) # "nil" THEN "UsageError"
                ELSE IF CheckType(recordType) # "nil" THEN "UsageError"
                ELSE IF ~authOK THEN "AuthError"
                ELSE "nil"
       IN  /\ err' = e
           /\ exit' = ExitOf(e)
           /\ pc' = OrFatal(e, "zoneIDByName")
           /\ recordName' = IF e = "nil" THEN Normalize(recordName)
                            ELSE recordName
    /\ UNCHANGED <<recordType, setID, action, ips, verbose, authOK>>
    /\ UNCHANGED <<remote, zoneName, marker, zoneID, rrs, observed, history, run>>

\* zoneIDByName before its loop: the zone name and an empty request.
ZoneIDByName ==
    /\ pc = "zoneIDByName"
    /\ LET r == recordToZone(recordName)
       IN  /\ zoneName' = r.zone
           /\ err' = r.err
           /\ exit' = ExitOf(r.err)
           /\ pc' = OrFatal(r.err, "ListHostedZones")
    /\ marker' = 0
    /\ UNCHANGED <<flags, remote, zoneID, rrs, observed, history, run>>

\* One turn of zoneIDByName's loop: a ListHostedZones request and the scan
\* of the page; the call may fail.
ListHostedZones ==
    /\ pc = "ListHostedZones"
    /\ \E ok \in BOOLEAN :
         LET resp == ListHostedZonesResp(hostedZones, maxItems, marker)
             step == IF ok THEN ZonePage(resp, zoneName)
                     ELSE [return |-> TRUE, zoneID |-> <<>>,
                           err |-> "RemoteAPIError", marker |-> 0]
         IN  /\ calls' = Append(calls, "ListHostedZones")
             /\ markers' = Append(markers, marker)
             /\ zoneID' = step.zoneID
             /\ err' = step.err
             /\ exit' = ExitOf(step.err)
             /\ marker' = IF step.return THEN marker ELSE step.marker
             /\ pc' = IF step.return
                      THEN OrFatal(step.err, "getResourceRecordSet")
                      ELSE "ListHostedZones"
    /\ UNCHANGED <<flags, remote, zoneName, rrs, submitted, logged, printed,
                   history, run>>

\* getResourceRecordSet and main's verbose print of what it found.
GetResourceRecordSet ==
    /\ pc = "getResourceRecordSet"
    /\ \E ok \in BOOLEAN :
         LET resp == ListResourceRecordSetsResp(recordSets, maxItems)
             r == IF ok
                  THEN ScanRecordSets(resp.ResourceRecordSets, recordName, setID)
                  ELSE [rrs |-> NoRRS, err |-> "RemoteAPIError"]
         IN  /\ calls' = Append(calls, "ListResourceRecordSets")
             /\ rrs' = r.rrs
             /\ err' = r.err
             /\ exit' = ExitOf(r.err)
             /\ pc' = OrFatal(r.err, "switch")
             /\ printed' = IF r.err = "nil" /\ verbose
                           THEN Append(printed, r.rrs) ELSE printed
    /\ UNCHANGED <<flags, remote, zoneName, marker, zoneID, markers, submitted,
                   logged, history, run>>

\* cmd=add: addToARecordResourceRecordSet.  The response's Comment is
\* optional, and the verbose log line reads it.
AddToARecordResourceRecordSet ==
    /\ pc = "switch"
    /\ action = "add"
    /\ \E ok \in BOOLEAN, comment \in {Nil, "comment"} :
         LET new == [rrs EXCEPT !.ResourceRecords = AddRecords(@, ips)]
             sent == Len(ips) # 0
             e == IF ~sent THEN "EmptyInput"
                  ELSE IF ~ok THEN "RemoteAPIError"
                  ELSE IF verbose /\ comment = Nil THEN "NilDereference"
                  ELSE "nil"
         IN  /\ calls' = IF sent THEN Append(calls, "ChangeResourceRecordSets")
                         ELSE calls
             /\ submitted' =
                  IF sent
                  THEN Append(submitted, [HostedZoneID |-> zoneID,
                                          Action |-> "UPSERT",
                                          ResourceRecordSet |-> new])
                  ELSE submitted
             /\ history' =
                  IF sent
                  THEN Append(history, [action |-> "add", ips |-> ips,
                                        before |-> rrs.ResourceRecords,
                                        after |-> new.ResourceRecords,
                                        accepted |-> ok])
                  ELSE history
             /\ recordSets' = IF sent /\ ok THEN Upsert(recordSets, new)
                              ELSE recordSets
             /\ err' = e
             /\ exit' = IF e = "nil" THEN "ok" ELSE ExitOf(e)
    /\ pc' = "exit"
    /\ UNCHANGED <<flags, hostedZones, maxItems, zoneName, marker, zoneID, rrs,
                   markers, logged, printed, run>>

\* cmd=del: delFromARecordResourceRecordSet.
DelFromARecordResourceRecordSet ==
    /\ pc = "switch"
    /\ action = "del"
    /\ LET scan == DelRecords(rrs.ResourceRecords, Range(ips), <<>>, <<>>)
           new == [rrs EXCEPT !.ResourceRecords = scan.newRecords]
           sent == Len(ips) # 0
       IN  \E ok \in BOOLEAN, keys \in MapKeys(scan.ipMap) :
             LET e == IF ~sent THEN "EmptyInput"
                      ELSE IF ~ok THEN "RemoteAPIError"
                      ELSE "nil"
             IN  /\ logged' =
                      IF sent /\ verbose
                      THEN [i \in 1..Len(scan.deleting) |->
                               [msg |-> "deleting IP",
                                ips |-> <<scan.deleting[i]>>]]
                           \o (IF scan.ipMap # {}
                               THEN <<[msg |-> "IPs not found to delete",
                                       ips |-> keys]>>
                               ELSE <<>>)
                      ELSE logged
                 /\ calls' = IF sent
                             THEN Append(calls, "ChangeResourceRecordSets")
                             ELSE calls
                 /\ submitted' =
                      IF sent
                      THEN Append(submitted, [HostedZoneID |-> zoneID,
                                              Action |-> "UPSERT",
                                              ResourceRecordSet |-> new])
                      ELSE submitted
                 /\ history' =
                      IF sent
                      THEN Append(history, [action |-> "del", ips |-> ips,
                                            before |-> rrs.ResourceRecords,
                                            after |-> new.ResourceRecords,
                                            accepted |-> ok])
                      ELSE history
                 /\ recordSets' = IF sent /\ ok THEN Upsert(recordSets, new)
                                  ELSE recordSets
                 /\ err' = e
                 /\ exit' = IF e = "nil" THEN "ok" ELSE ExitOf(e)
    /\ pc' = "exit"
    /\ UNCHANGED <<flags, hostedZones, maxItems, zoneName, marker, zoneID, rrs,
                   markers, printed, run>>

\* cmd=list: print the record set.
ListRecordSet ==
    /\ pc = "switch"
    /\ action = "list"
    /\ printed' = Append(printed, rrs)
    /\ exit' = "ok"
    /\ pc' = "exit"
    /\ UNCHANGED <<flags, remote, zoneName, marker, zoneID, rrs, err, calls,
                   markers, submitted, logged, history, run>>

\* The tool is run once more, with another command; the service keeps what
\* it accepted.
Reinvoke ==
    /\ pc = "exit"
    /\ run = "first"
    /\ run' = "second"
    /\ action' \in {"add", "del"}
    /\ ips' \in SeqsUpTo(IPs, MaxIPs) \ {<<>>}
    /\ pc' = "main"
    /\ zoneName' = <<>>
    /\ marker' = 0
    /\ zoneID' = <<>>
    /\ rrs' = NoRRS
    /\ err' = "nil"
    /\ exit' = "running"
    /\ calls' = <<>>
    /\ markers' = <<>>
    /\ submitted' = <<>>
    /\ logged' = <<>>
    /\ printed' = <<>>
    /\ UNCHANGED <<recordName, recordType, setID, verbose, authOK, remote,
                   history>>

\* ---------------------------------------------------------- specifications
Next ==
    \/ Main
    \/ ZoneIDByName
    \/ ListHostedZones
    \/ GetResourceRecordSet
    \/ AddToARecordResourceRecordSet
    \/ DelFromARecordResourceRecordSet
    \/ ListRecordSet

Spec == Init /\ [][Next]_vars

NextZone == ZoneIDByName

SpecZone == InitZone /\ [][NextZone]_vars

NextResolver == Main \/ ZoneIDByName \/ ListHostedZones

SpecResolver == InitResolver /\ [][NextResolver]_vars

NextLocator == NextResolver \/ GetResourceRecordSet

SpecLocator == InitLocator /\ [][NextLocator]_vars

NextMutator == Next \/ Reinvoke

SpecMutator == InitMutator /\ [][NextMutator]_vars

\* ------------------------------------------------------------------ claims
Values(records) == [i \in 1..Len(records) |-> records[i].Value]

Count(x, s) == Cardinality({i \in 1..Len(s) : s[i] = x})

SubmittedAddrs == Values(submitted[1].ResourceRecordSet.ResourceRecords)

ExistingAddrs == Values(rrs.ResourceRecords)

DelSubmitted == action = "del" /\ submitted # <<>>

AddSubmitted == action = "add" /\ submitted # <<>>

\* C1: the address list del submits holds no address of the delete-set,
\* whatever the existing list (repeated addresses included).
C1_DeleteLeavesNone ==
    DelSubmitted => Range(SubmittedAddrs) \cap Range(ips) = {}

\* C2: add L to a record set with no addresses, then del L from the record
\* set the service then holds: the list del submits holds no element of L.
C2_AddThenDelete ==
    (/\ Len(history) = 2
     /\ history[1].action = "add"
     /\ history[1].before = <<>>
     /\ history[1].accepted
     /\ history[2].action = "del"
     /\ history[2].ips = history[1].ips
     /\ history[2].before = history[1].after)
    => Range(Values(history[2].after)) \cap Range(history[1].ips) = {}

\* C3: add submits one UPSERT whose address list is the existing list
\* followed by the requested addresses in the order given, nothing merged;
\* the same address added by two runs in a row is then there twice.
C3_AddAppends ==
    /\ AddSubmitted =>
         /\ Len(submitted) = 1
         /\ submitted[1].Action = "UPSERT"
         /\ SameRecordSet(submitted[1].ResourceRecordSet, rrs)
         /\ SubmittedAddrs = ExistingAddrs \o ips
         /\ \A ip \in Range(ips) :
              /\ Count(ip, SubmittedAddrs) >= 1
              /\ Count(ip, SubmittedAddrs)
                   = Count(ip, ExistingAddrs) + Count(ip, ips)
    /\ (/\ Len(history) = 2
        /\ history[1].action = "add"
        /\ history[2].action = "add"
        /\ history[1].accepted
        /\ Len(history[1].ips) = 1
        /\ history[2].ips = history[1].ips
        /\ history[1].ips[1] \notin Range(Values(history[1].before)))
       => Count(history[1].ips[1], Values(history[2].after)) = 2

C3_Witness ==
    /\ AddSubmitted
    /\ run = "second"
    /\ Len(history) = 2
    /\ history[1].action = "add"
    /\ history[1].accepted
    /\ history[2].ips = history[1].ips
    /\ history[1].before # <<>>
    /\ Count("192.168.1.2", Values(history[1].before)) = 0
    /\ Count("192.168.1.2", SubmittedAddrs) = 2

NonePresent == Range(ips) \cap Range(ExistingAddrs) = {}

NotFoundLines ==
    SelectSeq(logged, LAMBDA line : line.msg = "IPs not found to delete")

ListsExactly(listing, S) ==
    /\ Range(listing) = S
    /\ Len(listing) = Cardinality(S)

\* C4 as stated: del of addresses none of which is in the list submits the
\* list as it is and always logs the listing of the addresses not found.
C4_AlwaysDiagnosed ==
    (DelSubmitted /\ NonePresent) =>
        /\ SubmittedAddrs = ExistingAddrs
        /\ Len(NotFoundLines) = 1
        /\ ListsExactly(NotFoundLines[1].ips, Range(ips))

\* C4 as amended: del of addresses none of which is in the list submits the
\* list as it is; with -v it logs one line listing exactly the requested
\* addresses, each once, and without -v it logs nothing.
C4_DiagnosedWhenVerbose ==
    (DelSubmitted /\ NonePresent) =>
        /\ SubmittedAddrs = ExistingAddrs
        /\ IF verbose
           THEN /\ Len(logged) = 1
                /\ Len(NotFoundLines) = 1
                /\ ListsExactly(NotFoundLines[1].ips, Range(ips))
           ELSE logged = <<>>

C4_Witness ==
    /\ DelSubmitted
    /\ NonePresent
    /\ verbose
    /\ Len(ExistingAddrs) = 2
    /\ SubmittedAddrs = ExistingAddrs
    /\ Len(NotFoundLines) = 1

Dots(name) == {i \in 1..Len(name) : name[i] = "."}

NumLabels(name) == Cardinality(Dots(name)) + 1

\* zone is name from just after its third dot from the end (all of name when
\* it has two dots).
IsLastThreeLabels(zone, name) ==
    /\ Len(zone) <= Len(name)
    /\ zone = SubSeq(name, Len(name) - Len(zone) + 1, Len(name))
    /\ Cardinality(Dots(zone)) = 2
    /\ \/ Len(zone) = Len(name)
       \/ name[Len(name) - Len(zone)] = "."

ZoneDerived == pc # "zoneIDByName"

\* C5: a name of 3 labels or more (one more than it has dots) gives its last
\* 3 labels joined by dots and no error; a name of fewer gives InvalidName
\* and no zone name.
C5_ZoneDerivation ==
    ZoneDerived =>
        IF NumLabels(recordName) >= 3
        THEN /\ err = "nil"
             /\ pc = "ListHostedZones"
             /\ IsLastThreeLabels(zoneName, recordName)
        ELSE /\ err = "InvalidName"
             /\ zoneName = <<>>
             /\ pc = "exit"
             /\ exit = "fatal"

C5_Witness ==
    /\ ZoneDerived
    /\ NumLabels(recordName) = 4
    /\ err = "nil"
    /\ Len(zoneName) = 4
    /\ Len(recordName) = 5

\* C6 as stated: the name "a.b." is rejected with InvalidName.
C6_RejectsTwoLabelsAndDot ==
    (ZoneDerived /\ recordName = <<"a", ".", "b", ".">>)
        => err = "InvalidName"

\* C6 as amended: the name "a.b." is accepted, with itself as its zone (its
\* labels are a, b and the empty label after the last dot); the names "a.b"
\* and "a." (2 labels) are rejected with InvalidName.
C6_AcceptsTwoLabelsAndDot ==
    ZoneDerived =>
        /\ recordName = <<"a", ".", "b", ".">>
             => (err = "nil" /\ zoneName = <<"a", ".", "b", ".">>)
        /\ recordName \in {<<"a", ".", "b">>, <<"a", ".">>}
             => (err = "InvalidName" /\ zoneName = <<>>)

C6_Witness ==
    /\ ZoneDerived
    /\ recordName = <<"a", ".", "b", ".">>
    /\ zoneName = recordName
    /\ pc = "ListHostedZones"

\* C7: cmd=list never submits a change; without addresses it ends well once
\* the zone and the record set are found; with addresses it ends as a usage
\* error with no remote call made.
C7_List ==
    action = "list" =>
        /\ "ChangeResourceRecordSets" \notin Range(calls)
        /\ submitted = <<>>
        /\ (ips = <<>> /\ rrs # NoRRS) =>
              /\ err = "nil"
              /\ pc \in {"switch", "exit"}
              /\ pc = "exit" => (exit = "ok" /\ printed[Len(printed)] = rrs)
        /\ (ips # <<>> /\ pc # "main") =>
              /\ pc = "exit"
              /\ exit = "usage"
              /\ calls = <<>>

C7_Witness ==
    /\ action = "list"
    /\ ips = <<>>
    /\ rrs # NoRRS
    /\ pc = "exit"
    /\ exit = "ok"
    /\ calls = <<"ListHostedZones", "ListHostedZones", "ListResourceRecordSets">>

FirstMatch ==
    IF \E i \in 1..Len(hostedZones) : hostedZones[i].Name = ZoneName
    THEN CHOOSE i \in 1..Len(hostedZones) :
             /\ hostedZones[i].Name = ZoneName
             /\ \A j \in 1..(i - 1) : hostedZones[j].Name # ZoneName
    ELSE 0

PageOf(i) == ((i - 1) \div maxItems) + 1

NumPages == IF hostedZones = <<>> THEN 1 ELSE PageOf(Len(hostedZones))

MarkersOfPages(n) ==
    [k \in 1..n |-> IF k = 1 THEN 0 ELSE (k - 1) * maxItems + 1]

Slashes(id) == {i \in 1..Len(id) : id[i] = "/"}

AfterLastSlash(id) ==
    LET last == CHOOSE i \in Slashes(id) : \A j \in Slashes(id) : j <= i
    IN  SubSeq(id, last + 1, Len(id))

\* C8: the pages are asked for in order, none after the page of the first
\* zone of the derived name; that zone's id gives the result: what follows
\* its last "/" when it has 3 parts, MalformedZoneID otherwise; ZoneNotFound
\* is the result exactly when every page was served and none holds a zone
\* of that name.
C8_Resolver ==
    /\ Len(markers) <= NumPages
    /\ markers = MarkersOfPages(Len(markers))
    /\ FirstMatch # 0 => Len(markers) <= PageOf(FirstMatch)
    /\ pc = "getResourceRecordSet" =>
         /\ err = "nil"
         /\ FirstMatch # 0
         /\ Len(markers) = PageOf(FirstMatch)
         /\ Cardinality(Slashes(hostedZones[FirstMatch].ID)) = 2
         /\ zoneID = AfterLastSlash(hostedZones[FirstMatch].ID)
    /\ err = "MalformedZoneID" =>
         /\ FirstMatch # 0
         /\ Len(markers) = PageOf(FirstMatch)
         /\ Cardinality(Slashes(hostedZones[FirstMatch].ID)) # 2
    /\ err = "ZoneNotFound" =>
         /\ FirstMatch = 0
         /\ Len(markers) = NumPages
    /\ (pc = "exit" /\ err # "RemoteAPIError") =>
         /\ zoneName = ZoneName
         /\ FirstMatch = 0 => err = "ZoneNotFound"
         /\ FirstMatch # 0 => err = "MalformedZoneID"

C8_Witness ==
    /\ pc = "getResourceRecordSet"
    /\ Len(markers) = 3
    /\ FirstMatch = 3
    /\ zoneID = <<"Z22CR2RGPPKRQB">>

FirstPage == SubSeq(recordSets, 1, Min(maxItems, Len(recordSets)))

Matches(r) == r.Name = recordName /\ r.SetIdentifier = setID

Located == "ListResourceRecordSets" \in Range(calls) /\ err # "RemoteAPIError"

\* C9: one listing request; the result is the first record set of the page
\* served with the record name and the set identifier asked for, whatever
\* its type, and RecordSetNotFound when the page holds none.
C9_Locator ==
    /\ Count("ListResourceRecordSets", calls) <= 1
    /\ Located =>
         IF \E i \in 1..Len(FirstPage) : Matches(FirstPage[i])
         THEN LET first == CHOOSE i \in 1..Len(FirstPage) :
                               /\ Matches(FirstPage[i])
                               /\ \A j \in 1..(i - 1) : ~Matches(FirstPage[j])
              IN  err = "nil" /\ rrs = FirstPage[first] /\ pc = "switch"
         ELSE err = "RecordSetNotFound" /\ rrs = NoRRS /\ pc = "exit"

Rank(api) ==
    IF api = "ListHostedZones" THEN 1
    ELSE IF api = "ListResourceRecordSets" THEN 2
    ELSE 3

C10_Order ==
    /\ \A i, j \in 1..Len(calls) : i < j => Rank(calls[i]) <= Rank(calls[j])
    /\ Count("ListResourceRecordSets", calls) <= 1
    /\ Count("ChangeResourceRecordSets", calls) <= 1
    /\ Len(submitted) = Count("ChangeResourceRecordSets", calls)
    /\ "ListResourceRecordSets" \in Range(calls) =>
         /\ "ListHostedZones" \in Range(calls)
         /\ zoneID # <<>>
    /\ "ChangeResourceRecordSets" \in Range(calls) =>
         /\ action \in {"add", "del"}
         /\ "ListResourceRecordSets" \in Range(calls)
         /\ zoneID # <<>>
         /\ rrs # NoRRS
    /\ err # "nil" => (pc = "exit" /\ exit \in {"usage", "fatal", "panic"})

\* C10: the remote calls come in the order zone listing, record set listing,
\* change; the change is sent at most once, for add and del, after the zone
\* and the record set were found; a failure ends the process with an error,
\* and no remote call follows it.
C10_FailFast ==
    /\ []C10_Order
    /\ [][err # "nil" => UNCHANGED <<calls, submitted, pc>>]_vars

C10_Witness ==
    /\ pc = "exit"
    /\ err = "RemoteAPIError"
    /\ exit = "fatal"
    /\ calls = <<"ListHostedZones", "ListHostedZones", "ListResourceRecordSets",
                 "ChangeResourceRecordSets">>

====
